---- MODULE Spec2Model ----
(***************************************************************************)
(* Background-people removal pipeline of aiwallpaper:                      *)
(*   services/person-detection      detectPeopleInImage, detectPeopleWithYOLO *)
(*   services/foreground-separation calculateForegroundScore, separate...  *)
(*   services/background-inpainting smartInpainting and its back-ends      *)
(*   services/auto-person-removal   autoRemoveBackgroundPeople(+WithRetry) *)
(*                                                                         *)
(* Every `await` on a remote call (replicate.run, setTimeout) is one       *)
(* action; the synchronous code between two awaits is part of the action   *)
(* that resumes it.  Remote responses are the nondeterministic inputs.     *)
(*                                                                         *)
(* Numbers.  Confidence is kept in percent (0.8 -> 80).  Centre points are *)
(* kept doubled (2*cx, 2*cy) so that x + w/2 stays an integer.  Factor     *)
(* scores are kept in hundredths of a point (100.00 -> 10000), the final   *)
(* score in 1/10000 of a point (100 -> 1000000).  exp and sqrt are         *)
(* computed in fixed point.                                                *)
(*                                                                         *)
(* Bind(e, F) and `\E v \in {e} : ...` play the part of `const v = e`:     *)
(* the value is computed once and then used by name.                       *)
(***************************************************************************)
EXTENDS Integers, Sequences, FiniteSets, TLC

\* ------------------------------------------------------------------ bounds
MaxRetriesBound == 2
MaxBackoffRetries == 6
MaxDet == 2
MaxBoxes == 2
MaxTarget == 2
MaxMasks == 3

\* --------------------------------------------------------- small utilities
Bind(e, F(_)) == CHOOSE r \in {F(v) : v \in {e}} : TRUE

Min(a, b) == Bind(<<a, b>>, LAMBDA p : IF p[1] < p[2] THEN p[1] ELSE p[2])
Max(a, b) == Bind(<<a, b>>, LAMBDA p : IF p[1] > p[2] THEN p[1] ELSE p[2])

\* floor(a * b1 * b2 / c) without leaving 32-bit integers
MulDiv(a, b1, b2, c) ==
  Bind(<<a * b1, c>>, LAMBDA p :
    (p[1] \div p[2]) * b2 + ((p[1] % p[2]) * b2) \div p[2])

RECURSIVE SqrtSearch(_, _, _)
SqrtSearch(n, lo, hi) ==
  IF lo >= hi THEN lo
  ELSE Bind((lo + hi + 1) \div 2, LAMBDA mid :
         IF mid * mid <= n THEN SqrtSearch(n, mid, hi)
         ELSE SqrtSearch(n, lo, mid - 1))

\* floor(sqrt(n)) for 0 <= n <= 4000000
ISqrt(n) == Bind(n, LAMBDA v : SqrtSearch(v, 0, 2000))

\* v * v in 1/10000
Square4(v) == Bind(v, LAMBDA w : (w * w) \div 10000)

\* exp(-x) for x given in thousandths, 0 <= x <= 3000; result in 1/10000.
\* exp(-x) = (exp(-x/8))^8, the inner one by its Taylor polynomial of
\* degree 4 in Horner form.
ExpNeg(xMilli) ==
  Bind((xMilli * 5) \div 4, LAMBDA y :
    Bind(10000 - (y \div 4), LAMBDA h4 :
      Bind(10000 - ((y * h4) \div 30000), LAMBDA h3 :
        Bind(10000 - ((y * h3) \div 20000), LAMBDA h2 :
          Square4(Square4(Square4(10000 - ((y * h2) \div 10000))))))))

\* mutant: the slice takes one element too many
SliceJSInclusive(s, end) ==
  SubSeq(s, 1, IF end < 0 THEN Max(Len(s) + end + 1, 0) ELSE Min(end + 1, Len(s)))

\* Array.prototype.slice(0, end): a negative end counts from the back
SliceJS(s, end) ==
  SubSeq(s, 1, IF end < 0 THEN Max(Len(s) + end, 0) ELSE Min(end, Len(s)))

SeqRange(s) == {s[k] : k \in 1..Len(s)}

\* ------------------------------------------------------------ PersonMask
DefaultBBox == <<0, 0, 100, 100>>
DefaultConfidence == 80
ConfidenceThreshold == 50
DetectorImageSize == 1024

\* mutant: the id does not carry the index
PersonMaskFixedId(index, maskRef, bbox, confidence) ==
  [id          |-> "person",
   mask        |-> maskRef,
   bbox        |-> bbox,
   confidence  |-> confidence,
   centerPoint |-> <<2 * bbox[1] + bbox[3], 2 * bbox[2] + bbox[4]>>,
   area        |-> bbox[3] * bbox[4]]

\* mutant: the centre taken as the top-left corner
PersonMaskCornerPoint(index, maskRef, bbox, confidence) ==
  [id          |-> "person_" \o ToString(index),
   mask        |-> maskRef,
   bbox        |-> bbox,
   confidence  |-> confidence,
   centerPoint |-> <<2 * bbox[1], 2 * bbox[2]>>,
   area        |-> bbox[3] * bbox[4]]

\* the object literal built for one detection
PersonMask(index, maskRef, bbox, confidence) ==
  [id          |-> "person_" \o ToString(index),
   mask        |-> maskRef,
   bbox        |-> bbox,
   confidence  |-> confidence,
   centerPoint |-> <<2 * bbox[1] + bbox[3], 2 * bbox[2] + bbox[4]>>,
   area        |-> bbox[3] * bbox[4]]

\* ------------------------------------------------- foreground scoring
\* squared distance to the image centre over the squared centre-to-corner
\* distance, both in doubled coordinates
DistNum(c2, imageWidth, imageHeight) ==
  (c2[1] - imageWidth) * (c2[1] - imageWidth)
    + (c2[2] - imageHeight) * (c2[2] - imageHeight)

DistDen(imageWidth, imageHeight) ==
  imageWidth * imageWidth + imageHeight * imageHeight

BBoxCenter2(person) ==
  <<2 * person.bbox[1] + person.bbox[3], 2 * person.bbox[2] + person.bbox[4]>>

calculatePositionScore(person, imageWidth, imageHeight) ==
  Max(0, ExpNeg(3 * ISqrt(MulDiv(
                  DistNum(BBoxCenter2(person), imageWidth, imageHeight),
                  1000, 1000, DistDen(imageWidth, imageHeight)))))

\* mutant: the excess measured against 0.8 instead of 0.8 - 0.4
calculateSizeScoreWideExcess(person, imageWidth, imageHeight) ==
  Bind(<<person.bbox[3] * person.bbox[4], imageWidth * imageHeight>>,
    LAMBDA a :
      IF a[1] * 100 < 5 * a[2]
        THEN MulDiv(a[1], 1200, 100, a[2])
      ELSE IF a[1] * 10 > 4 * a[2]
        THEN Max(2000, 15000 - MulDiv(a[1], 125, 100, a[2]))
      ELSE 10000)

\* mutant: the oversize branch without its floor of 20
calculateSizeScoreNoFloor(person, imageWidth, imageHeight) ==
  Bind(<<person.bbox[3] * person.bbox[4], imageWidth * imageHeight>>,
    LAMBDA a :
      IF a[1] * 100 < 5 * a[2]
        THEN MulDiv(a[1], 1200, 100, a[2])
      ELSE IF a[1] * 10 > 4 * a[2]
        THEN 20000 - MulDiv(a[1], 250, 100, a[2])
      ELSE 10000)

calculateSizeScore(person, imageWidth, imageHeight) ==
  Bind(<<person.bbox[3] * person.bbox[4], imageWidth * imageHeight>>,
    LAMBDA a :  \* a[1] = personArea, a[2] = imageArea
      IF a[1] * 100 < 5 * a[2]
        THEN MulDiv(a[1], 1200, 100, a[2])
      ELSE IF a[1] * 10 > 4 * a[2]
        THEN Max(2000, 20000 - MulDiv(a[1], 250, 100, a[2]))
      ELSE 10000)

calculateCentralityScore(person, imageWidth, imageHeight) ==
  Max(0, ExpNeg(2 * ((DistNum(person.centerPoint, imageWidth, imageHeight) * 1000)
                       \div DistDen(imageWidth, imageHeight))))

calculateOrientationScore(person, imageWidth, imageHeight) ==
  Bind(BBoxCenter2(person), LAMBDA c2 :
    LET isInForegroundArea   == 10 * c2[2] > 6 * imageHeight
        isInCenterHorizontal == 10 * c2[1] > 4 * imageWidth
                                /\ 10 * c2[1] < 16 * imageWidth
    IN  Min(10000, 5000 + (IF isInForegroundArea THEN 3000 ELSE 0)
                        + (IF isInCenterHorizontal THEN 2000 ELSE 0)))

calculateClarityScore(person) ==
  Min(10000, 7000 + person.confidence * 30)

\* mutant: clarity weighted 0.15
weightsHeavyClarity ==
  [position |-> 30, size |-> 25, centrality |-> 20,
   orientation |-> 15, clarity |-> 15]

\* weights in percent
weights == [position |-> 30, size |-> 25, centrality |-> 20,
            orientation |-> 15, clarity |-> 10]

calculateForegroundScore(person, imageWidth, imageHeight) ==
  Bind([position    |-> calculatePositionScore(person, imageWidth, imageHeight),
        size        |-> calculateSizeScore(person, imageWidth, imageHeight),
        clarity     |-> calculateClarityScore(person),
        centrality  |-> calculateCentralityScore(person, imageWidth, imageHeight),
        orientation |-> calculateOrientationScore(person, imageWidth, imageHeight)],
    LAMBDA f :
      [personId |-> person.id,
       score    |-> Max(0, Min(1000000,
                      f.position * weights.position
                      + f.size * weights.size
                      + f.centrality * weights.centrality
                      + f.orientation * weights.orientation
                      + f.clarity * weights.clarity)),
       factors  |-> f])

\* ------------------------------------------ foreground/background separation
\* mutant: among equal scores the later one comes first
SortedPositionLaterFirst(scores, k) ==
  1 + Cardinality({j \in 1..Len(scores) :
                     \/ scores[j].score > scores[k].score
                     \/ scores[j].score = scores[k].score /\ j > k})

\* mutant: the comparator the other way round (a.score - b.score)
SortedPositionAscending(scores, k) ==
  1 + Cardinality({j \in 1..Len(scores) :
                     \/ scores[j].score < scores[k].score
                     \/ scores[j].score = scores[k].score /\ j < k})

\* where scores[k] lands under scores.sort((a, b) => b.score - a.score):
\* behind every higher score and behind every equal score that came earlier
\* (the sort is stable)
SortedPosition(scores, k) ==
  1 + Cardinality({j \in 1..Len(scores) :
                     \/ scores[j].score > scores[k].score
                     \/ scores[j].score = scores[k].score /\ j < k})

SortByScore(scores) ==
  [p \in 1..Len(scores) |->
     scores[CHOOSE k \in 1..Len(scores) : SortedPosition(scores, k) = p]]

combineMasks(masks) ==
  IF Len(masks) = 0 THEN "" ELSE masks[1].mask

\* mutant: the background is not filtered
PartitionBackgroundAll(masks, foregroundIds) ==
  LET IsFg(m) == m.id \in foregroundIds
  IN  Bind(SelectSeq(masks, IsFg), LAMBDA fg :
        [foregroundMasks |-> fg,
         backgroundMasks |-> masks,
         foregroundMask  |-> combineMasks(fg),
         backgroundMask  |-> combineMasks(masks)])

\* the partition, given the ids chosen as foreground
Partition(masks, foregroundIds) ==
  LET IsFg(m) == m.id \in foregroundIds
      IsBg(m) == m.id \notin foregroundIds
  IN  Bind(<<SelectSeq(masks, IsFg), SelectSeq(masks, IsBg)>>, LAMBDA p :
        [foregroundMasks |-> p[1],
         backgroundMasks |-> p[2],
         foregroundMask  |-> combineMasks(p[1]),
         backgroundMask  |-> combineMasks(p[2])])

\* mutant: the early return hands back placeholders for the merged masks
EmptySeparationPlaceholder ==
  [foregroundMasks |-> <<>>, backgroundMasks |-> <<>>,
   foregroundMask |-> "none", backgroundMask |-> "none"]

\* the early return for a detection without masks
EmptySeparation ==
  [foregroundMasks |-> <<>>, backgroundMasks |-> <<>>,
   foregroundMask |-> "", backgroundMask |-> ""]

separateForegroundBackground(detectionResult, targetForegroundCount) ==
  IF Len(detectionResult.masks) = 0
    THEN EmptySeparation
  ELSE
    Bind([k \in 1..Len(detectionResult.masks) |->
            calculateForegroundScore(detectionResult.masks[k],
                                     detectionResult.imageWidth,
                                     detectionResult.imageHeight)],
      LAMBDA unsorted :
        Bind(SortByScore(unsorted), LAMBDA scores :
          Bind(SliceJS(scores, Min(targetForegroundCount, Len(scores))),
            LAMBDA top :
              Bind({top[k].personId : k \in 1..Len(top)}, LAMBDA foregroundIds :
                Partition(detectionResult.masks, foregroundIds)))))

generateInpaintingMask(backgroundMasks, imageWidth, imageHeight) ==
  IF Len(backgroundMasks) = 0 THEN "" ELSE backgroundMasks[1].mask

\* ------------------------------------------------------- remote responses
\* A remote call either faults, answers with something that is not a usable
\* array, or answers with an array.  In a raw item an absent bbox is <<>>,
\* an absent or empty mask is "", an absent confidence is Missing: each is
\* falsy for the `||` defaults of the adapters, and so is a confidence of 0.
RemoteError == "remote call failed"

\* a numeric field the response does not carry (undefined)
Missing == 0 - 1

RawItems ==
  { [bbox |-> <<256, 256, 512, 512>>, mask |-> "mask_a", confidence |-> 90],
    [bbox |-> <<0, 0, 128, 128>>,     mask |-> "mask_b", confidence |-> 60],
    [bbox |-> <<512, 512, 256, 256>>, mask |-> "mask_c", confidence |-> 50],
    [bbox |-> <<0, 0, 1024, 1024>>,   mask |-> "mask_d", confidence |-> 0],
    [bbox |-> <<>>,                   mask |-> "",       confidence |-> Missing] }

YoloItems ==
  { [bbox |-> <<256, 256, 512, 512>>, confidence |-> 90],
    [bbox |-> <<0, 0, 128, 128>>,     confidence |-> 60],
    [bbox |-> <<>>,                   confidence |-> Missing] }

SeqsUpTo(S, n) == UNION {[1..k -> S] : k \in 0..n}

Responses(S, n) ==
  {[kind |-> "throw"], [kind |-> "invalid"]}
    \cup {[kind |-> "ok", output |-> o] : o \in SeqsUpTo(S, n)}

Sam2Responses == Responses(RawItems, MaxDet)
YoloResponses == Responses(YoloItems, MaxBoxes)
SamResponses ==
  {[kind |-> "throw"], [kind |-> "ok", mask |-> ""],
   [kind |-> "ok", mask |-> "sam_mask"]}

ResultUrls == {"https://replicate.delivery/out1", "https://replicate.delivery/out2"}
InpaintResponses ==
  {[kind |-> "throw"], [kind |-> "invalid"]}
    \cup {[kind |-> "ok", output |-> <<u>>] : u \in ResultUrls}

Return(v) == [kind |-> "return", value |-> v]
Throw(msg) == [kind |-> "throw", error |-> msg]

\* ------------------------------------------------------ detection adapters
\* v || default, `falsy` being the falsy values of v's type
OrDefault(v, falsy, default) == IF v \in falsy THEN default ELSE v

\* detectPeopleInImage: what it returns or throws for one remote response
detectPeopleInImage(resp) ==
  IF resp.kind = "throw"
    THEN Throw("Failed to detect people: " \o RemoteError)
  ELSE IF resp.kind = "invalid"
    THEN Throw("Failed to detect people: SAM-2 API did not return valid output")
  ELSE
    LET output == resp.output
        masks == [k \in 1..Len(output) |->
                    PersonMask(k - 1,
                               output[k].mask,
                               OrDefault(output[k].bbox, {<<>>}, DefaultBBox),
                               OrDefault(output[k].confidence, {0, Missing}, DefaultConfidence))]
        Confident(m) == m.confidence > ConfidenceThreshold
    IN  Return([masks       |-> SelectSeq(masks, Confident),
                imageWidth  |-> DetectorImageSize,
                imageHeight |-> DetectorImageSize])

\* ------------------------------------------------------ inpainting back-ends
\* mutant: the priority list in another order
modelsReordered == <<"runwayml", "stability", "flux">>

\* the priority list of smartInpainting
models == <<"stability", "runwayml", "flux">>

ModelUsed(name) ==
  CASE name = "stability" -> "stability-ai/stable-diffusion-inpainting"
    [] name = "runwayml"  -> "runwayml/stable-diffusion-inpainting"
    [] name = "flux"      -> "black-forest-labs/flux-kontext-dev"

\* inpaintWithStabilityAI / inpaintWithRunwayML / inpaintWithFLUX
inpaintWith(name, resp, time) ==
  IF resp.kind = "ok"
    THEN Return([resultUrl      |-> resp.output[1],
                 processingTime |-> time,
                 modelUsed      |-> ModelUsed(name)])
    ELSE Throw("Failed to inpaint with " \o name)

\* ------------------------------------------------------- PersonRemovalResult
NoDetails ==
  [peopleDetected |-> 0, foregroundPeople |-> 0, backgroundPeople |-> 0,
   modelUsed |-> "none", inpaintingModel |-> "none"]

FailureResult(time, msg) ==
  [success |-> FALSE, processingTime |-> time, details |-> NoDetails,
   error |-> msg]

NoPeopleResult(time) == FailureResult(time, "No people detected in the image")

NoRemovalResult(url, time, det, sep) ==
  [success |-> TRUE, resultUrl |-> url, processingTime |-> time,
   details |-> [peopleDetected   |-> Len(det.masks),
                foregroundPeople |-> Len(sep.foregroundMasks),
                backgroundPeople |-> 0,
                modelUsed        |-> "SAM-2/YOLO",
                inpaintingModel  |-> "none"]]

\* mutant: every detected person is counted as removed
CompletedResultAllRemoved(time, det, sep, inp) ==
  [success |-> TRUE, resultUrl |-> inp.resultUrl, processingTime |-> time,
   details |-> [peopleDetected   |-> Len(det.masks),
                foregroundPeople |-> Len(sep.foregroundMasks),
                backgroundPeople |-> Len(det.masks),
                modelUsed        |-> "SAM-2/YOLO",
                inpaintingModel  |-> inp.modelUsed]]

\* the result of a completed attempt
CompletedResult(time, det, sep, inp) ==
  [success |-> TRUE, resultUrl |-> inp.resultUrl, processingTime |-> time,
   details |-> [peopleDetected   |-> Len(det.masks),
                foregroundPeople |-> Len(sep.foregroundMasks),
                backgroundPeople |-> Len(sep.backgroundMasks),
                modelUsed        |-> "SAM-2/YOLO",
                inpaintingModel  |-> inp.modelUsed]]

\* mutant: the closing return without its error text
MaxRetriesExceededSilent ==
  [success |-> FALSE, processingTime |-> 0, details |-> NoDetails]

\* the return after the retry loop
MaxRetriesExceeded == FailureResult(0, "Max retries exceeded")

validateInpaintingResult(resultUrl, originalImageUrl, maskUrl) == TRUE

\* ------------------------------------------------------------------ state
VARIABLES
  imageUrl,          \* argument of the call
  options,           \* PersonRemovalOptions after defaulting
  pc,                \* the await the invocation is suspended at
  attempt,           \* loop variable of autoRemoveBackgroundPeopleWithRetry
  elapsed,           \* Date.now() - startTime of the running pipeline attempt
  primaryError,      \* error caught from detectPeopleInImage
  yoloOutput,        \* detectPeopleWithYOLO: boxes returned by the detector
  i,                 \* detectPeopleWithYOLO: loop index
  masks,             \* detectPeopleWithYOLO: masks pushed so far
  detectionResult,   \* autoRemoveBackgroundPeople locals
  separationResult,
  inpaintingMask,
  modelIdx,          \* smartInpainting: position in `models`
  result,            \* what the last pipeline attempt returned
  returned,          \* what autoRemoveBackgroundPeopleWithRetry returned
  calls,             \* remote calls completed in the running attempt
  delays,            \* waits performed so far, in milliseconds
  pipelineRuns,      \* invocations of autoRemoveBackgroundPeople so far
  escaped,           \* a pipeline attempt threw to its caller
  input,             \* direct call of an exported function: its arguments
  output             \* direct call of an exported function: how it settled

vars == <<imageUrl, options, pc, attempt, elapsed, primaryError, yoloOutput, i,
          masks, detectionResult, separationResult, inpaintingMask, modelIdx,
          result, returned, calls, delays, pipelineRuns, escaped, input, output>>

\* a local that has not been assigned yet, a function that has not returned
None == [none |-> TRUE]

ImageUrls == {"https://r2.example/person-removal/in.png"}
PreferredModels == {"", "stability", "runwayml", "flux", "dalle"}
TargetCounts == (0 - 1)..MaxTarget
RetryCounts == (0 - 1)..MaxRetriesBound

\* the state as one record, so that the synchronous code between two awaits
\* can be written as functions from state to state
State ==
  [pc |-> pc, attempt |-> attempt, elapsed |-> elapsed,
   primaryError |-> primaryError, yoloOutput |-> yoloOutput, i |-> i,
   masks |-> masks, detectionResult |-> detectionResult,
   separationResult |-> separationResult, inpaintingMask |-> inpaintingMask,
   modelIdx |-> modelIdx, result |-> result, returned |-> returned,
   calls |-> calls, delays |-> delays, pipelineRuns |-> pipelineRuns,
   escaped |-> escaped]

Becomes(next) ==
  \E s \in {next} :
    /\ pc' = s.pc
    /\ attempt' = s.attempt
    /\ elapsed' = s.elapsed
    /\ primaryError' = s.primaryError
    /\ yoloOutput' = s.yoloOutput
    /\ i' = s.i
    /\ masks' = s.masks
    /\ detectionResult' = s.detectionResult
    /\ separationResult' = s.separationResult
    /\ inpaintingMask' = s.inpaintingMask
    /\ modelIdx' = s.modelIdx
    /\ result' = s.result
    /\ returned' = s.returned
    /\ calls' = s.calls
    /\ delays' = s.delays
    /\ pipelineRuns' = s.pipelineRuns
    /\ escaped' = s.escaped
    /\ UNCHANGED <<imageUrl, options, input, output>>

InitLocals ==
  /\ pc = "idle"
  /\ attempt = 0
  /\ elapsed = 0
  /\ primaryError = ""
  /\ yoloOutput = <<>>
  /\ i = 0
  /\ masks = <<>>
  /\ detectionResult = None
  /\ separationResult = None
  /\ inpaintingMask = None
  /\ modelIdx = 0
  /\ result = None
  /\ returned = None
  /\ calls = <<>>
  /\ delays = <<>>
  /\ pipelineRuns = 0
  /\ escaped = FALSE

Init ==
  /\ imageUrl \in ImageUrls
  /\ options \in [targetForegroundCount    : TargetCounts,
                  preferredInpaintingModel : PreferredModels,
                  fallbackToYOLO           : BOOLEAN,
                  maxRetries               : RetryCounts]
  /\ InitLocals
  /\ input = None
  /\ output = None

\* ------------------------------------- autoRemoveBackgroundPeopleWithRetry
Pow2(n) == 2 ^ n

\* mutant: the exponent taken from the attempt number itself
DelayFromAttempt(a) == Min(1000 * Pow2(a), 5000)

\* the wait after a failed attempt
Delay(a) == Min(1000 * Pow2(a - 1), 5000)

\* mutant: the detection of the previous attempt is kept
FreshLocalsKeepDetection(s) ==
  [s EXCEPT !.primaryError = "", !.yoloOutput = <<>>, !.i = 0, !.masks = <<>>,
            !.separationResult = None,
            !.inpaintingMask = None, !.modelIdx = 0,
            !.elapsed = 0, !.calls = <<>>, !.result = None]

\* a new pipeline attempt starts with fresh locals
FreshLocals(s) ==
  [s EXCEPT !.primaryError = "", !.yoloOutput = <<>>, !.i = 0, !.masks = <<>>,
            !.detectionResult = None, !.separationResult = None,
            !.inpaintingMask = None, !.modelIdx = 0,
            !.elapsed = 0, !.calls = <<>>, !.result = None]

\* loop head: test `attempt <= maxRetries`, then call the pipeline up to its
\* first await, or fall out of the loop to the closing return
LoopHead(s) ==
  IF s.attempt <= options.maxRetries
    THEN [FreshLocals(s) EXCEPT !.pc = "sam2", !.pipelineRuns = @ + 1]
    ELSE [s EXCEPT !.pc = "done", !.returned = MaxRetriesExceeded]

\* mutant: the last failure is re-wrapped the way the catch branch does it
AttemptSettledRewrapped(s, outcome) ==
  IF outcome.kind = "return" /\ outcome.value.success
    THEN [s EXCEPT !.result = outcome.value, !.returned = outcome.value,
                   !.pc = "done"]
  ELSE LET msg == IF outcome.kind = "return" THEN outcome.value.error
                  ELSE outcome.error
           t   == IF outcome.kind = "return"
                    THEN [s EXCEPT !.result = outcome.value]
                    ELSE [s EXCEPT !.escaped = TRUE]
       IN  IF s.attempt = options.maxRetries
             THEN [t EXCEPT !.pc = "done", !.returned = FailureResult(0, msg)]
             ELSE [t EXCEPT !.pc = "backoff",
                            !.delays = Append(@, Delay(s.attempt))]

\* mutant: a successful attempt is not returned before the last attempt
AttemptSettledNoEarlyReturn(s, outcome) ==
  IF outcome.kind = "return"
    THEN IF s.attempt = options.maxRetries
           THEN [s EXCEPT !.result = outcome.value,
                          !.returned = outcome.value, !.pc = "done"]
           ELSE [s EXCEPT !.result = outcome.value, !.pc = "backoff",
                          !.delays = Append(@, Delay(s.attempt))]
    ELSE IF s.attempt = options.maxRetries
      THEN [s EXCEPT !.escaped = TRUE, !.pc = "done",
                     !.returned = FailureResult(0, outcome.error)]
    ELSE [s EXCEPT !.escaped = TRUE, !.pc = "backoff",
                   !.delays = Append(@, Delay(s.attempt))]

\* mutant: the wait comes before the test for the last attempt
AttemptSettledWaitsAfterLast(s, outcome) ==
  IF outcome.kind = "return"
    THEN IF outcome.value.success
           THEN [s EXCEPT !.result = outcome.value,
                          !.returned = outcome.value, !.pc = "done"]
         ELSE IF s.attempt = options.maxRetries
           THEN [s EXCEPT !.result = outcome.value,
                          !.returned = outcome.value, !.pc = "done",
                          !.delays = Append(@, Delay(s.attempt))]
         ELSE [s EXCEPT !.result = outcome.value, !.pc = "backoff",
                        !.delays = Append(@, Delay(s.attempt))]
    ELSE IF s.attempt = options.maxRetries
      THEN [s EXCEPT !.escaped = TRUE, !.pc = "done",
                     !.returned = FailureResult(0, outcome.error)]
    ELSE [s EXCEPT !.escaped = TRUE, !.pc = "backoff",
                   !.delays = Append(@, Delay(s.attempt))]

\* the loop body after `await autoRemoveBackgroundPeople(...)` settles
AttemptSettled(s, outcome) ==
  IF outcome.kind = "return"
    THEN IF outcome.value.success
           THEN [s EXCEPT !.result = outcome.value,
                          !.returned = outcome.value, !.pc = "done"]
         ELSE IF s.attempt = options.maxRetries
           THEN [s EXCEPT !.result = outcome.value,
                          !.returned = outcome.value, !.pc = "done"]
         ELSE [s EXCEPT !.result = outcome.value, !.pc = "backoff",
                        !.delays = Append(@, Delay(s.attempt))]
    ELSE IF s.attempt = options.maxRetries
      THEN [s EXCEPT !.escaped = TRUE, !.pc = "done",
                     !.returned = FailureResult(0, outcome.error)]
    ELSE [s EXCEPT !.escaped = TRUE, !.pc = "backoff",
                   !.delays = Append(@, Delay(s.attempt))]

\* ------------------------------------------------ autoRemoveBackgroundPeople
\* mutant: the outer catch rethrows
PipelineRethrow(s, msg) == Throw(msg)

\* the outer catch: a fault becomes a failure result
PipelineCatch(s, msg) == Return(FailureResult(s.elapsed, msg))

\* the attempt settles with `outcome` and the wrapper's loop body resumes
PipelineExit(s, outcome) ==
  \E o \in {outcome} : Becomes(AttemptSettled(s, o))

KnownModel(name) == name \in SeqRange(models)

\* entry of smartInpainting up to its first await
smartInpaintingEntry(s) ==
  IF options.preferredInpaintingModel # ""
       /\ KnownModel(options.preferredInpaintingModel)
    THEN [s EXCEPT !.pc = "preferred"]
    ELSE [s EXCEPT !.pc = "models", !.modelIdx = 1]

\* mutant: the zero-mask test left out
NoPeopleUnchecked(det) == FALSE

\* the test for "no people detected"
NoPeople(det) == det = None \/ Len(det.masks) = 0

\* mutant: the short-circuit looks at the wrong partition
NoBackgroundWrongSet(sep) == Len(sep.foregroundMasks) = 0

\* the test that short-circuits the attempt to the original image
NoBackground(sep) == Len(sep.backgroundMasks) = 0

\* mutant: the generated mask is not tested
MaskMissingUnchecked(m) == FALSE

\* `!inpaintingMask`: the empty string is falsy
MaskMissing(m) == m = ""

\* mutant: the inpainting call is started before the mask is generated
AfterSeparationInpaintFirst(s) == Becomes(smartInpaintingEntry(s))

\* from the mask generator to the first inpainting call
AfterSeparation(s) ==
  \E m \in {generateInpaintingMask(s.separationResult.backgroundMasks,
                                   s.detectionResult.imageWidth,
                                   s.detectionResult.imageHeight)} :
  \E t \in {[s EXCEPT !.inpaintingMask = [value |-> m]]} :
    IF MaskMissing(m)
      THEN PipelineExit(t, PipelineCatch(t, "Failed to generate inpainting mask"))
      ELSE Becomes(smartInpaintingEntry(t))

\* from the end of detection to the first inpainting call
AfterDetection(s0, det) ==
  \E s \in {[s0 EXCEPT !.detectionResult = det]} :
    IF NoPeople(det)
      THEN PipelineExit(s, Return(NoPeopleResult(s.elapsed)))
    ELSE
      \E sep \in {separateForegroundBackground(det, options.targetForegroundCount)} :
      \E t \in {[s EXCEPT !.separationResult = sep]} :
        IF NoBackground(sep)
          THEN PipelineExit(t, Return(NoRemovalResult(imageUrl, t.elapsed, det, sep)))
          ELSE AfterSeparation(t)

\* smartInpainting returned inp: validate and build the result
AfterInpainting(s, inp) ==
  IF validateInpaintingResult(inp.resultUrl, imageUrl, s.inpaintingMask.value)
    THEN PipelineExit(s, Return(CompletedResult(s.elapsed, s.detectionResult,
                                                s.separationResult, inp)))
    ELSE PipelineExit(s, PipelineCatch(s, "Inpainting result validation failed"))

\* mutant: two calls were issued together and both settle
CalledWithSibling(s, fn, resp) ==
  [s EXCEPT !.elapsed = @ + 2,
            !.calls = @ \o << [fn |-> fn, ok |-> resp.kind = "ok", url |-> ""],
                              [fn |-> fn, ok |-> resp.kind = "ok", url |-> ""] >>]

\* a remote call settled; `url` is what an inpainting back-end or the
\* refiner delivered
Called(s, fn, resp) ==
  [s EXCEPT !.elapsed = @ + 1,
            !.calls = Append(@,
              [fn  |-> fn,
               ok  |-> resp.kind = "ok",
               url |-> IF resp.kind = "ok" /\ "output" \in DOMAIN resp
                          /\ fn \in SeqRange(models)
                         THEN resp.output[1]
                       ELSE IF resp.kind = "ok" /\ fn = "sam"
                         THEN resp.mask
                       ELSE ""])]

\* ------------------------------------------------------------------ actions
Start ==
  /\ pc = "idle"
  /\ Becomes(LoopHead([State EXCEPT !.attempt = 1]))

\* setTimeout fires: attempt++ and back to the loop head
BackoffElapses ==
  /\ pc = "backoff"
  /\ Becomes(LoopHead([State EXCEPT !.attempt = @ + 1]))

\* mutant: the fallback is taken whatever the option says
PrimaryFailedAlwaysFallback(s, error) ==
  Becomes([s EXCEPT !.pc = "yolo", !.primaryError = error])

\* the catch around detectPeopleInImage: fall back or rethrow
PrimaryFailed(s, error) ==
  IF options.fallbackToYOLO
    THEN Becomes([s EXCEPT !.pc = "yolo", !.primaryError = error])
    ELSE PipelineExit(s, PipelineCatch(s, error))

\* mutant: an empty primary result is treated like a primary fault
Sam2RespondsFallbackOnEmpty ==
  /\ pc = "sam2"
  /\ \E resp \in Sam2Responses :
     \E s \in {Called(State, "sam-2", resp)} :
     \E out \in {detectPeopleInImage(resp)} :
       IF out.kind = "return"
         THEN IF Len(out.value.masks) = 0
                THEN PrimaryFailed(s, "No people detected by SAM-2")
                ELSE AfterDetection(s, out.value)
       ELSE PrimaryFailed(s, out.error)

\* detectPeopleInImage settles
Sam2Responds ==
  /\ pc = "sam2"
  /\ \E resp \in Sam2Responses :
     \E s \in {Called(State, "sam-2", resp)} :
     \E out \in {detectPeopleInImage(resp)} :
       IF out.kind = "return" THEN AfterDetection(s, out.value)
       ELSE PrimaryFailed(s, out.error)

\* the catch around detectPeopleWithYOLO
BothFailed(s) ==
  PipelineExit(s, PipelineCatch(s,
    "Both SAM-2 and YOLO detection failed: " \o s.primaryError))

YoloDetection(pushed) ==
  [masks |-> pushed, imageWidth |-> DetectorImageSize,
   imageHeight |-> DetectorImageSize]

\* detectPeopleWithYOLO: the box detector settles
YoloResponds ==
  /\ pc = "yolo"
  /\ \E resp \in YoloResponses :
     \E s \in {Called(State, "yolov8", resp)} :
       IF resp.kind # "ok" THEN BothFailed(s)
       ELSE IF Len(resp.output) = 0
         THEN AfterDetection(s, YoloDetection(<<>>))
       ELSE Becomes([s EXCEPT !.pc = "sam", !.yoloOutput = resp.output,
                              !.i = 0, !.masks = <<>>])

\* what the loop body pushes for box number idx
Refined(detection, idx, resp) ==
  PersonMask(idx, resp.mask,
             OrDefault(detection.bbox, {<<>>}, DefaultBBox),
             OrDefault(detection.confidence, {0, Missing}, DefaultConfidence))

\* detectPeopleWithYOLO: the refinement of box i settles
SamResponds ==
  /\ pc = "sam"
  /\ \E resp \in SamResponses :
     \E s \in {Called(State, "sam", resp)} :
       IF resp.kind = "throw" THEN BothFailed(s)
       ELSE
         \E pushed \in {IF resp.mask # ""
                          THEN Append(masks, Refined(yoloOutput[i + 1], i, resp))
                          ELSE masks} :
           IF i + 1 < Len(yoloOutput)
             THEN Becomes([s EXCEPT !.i = i + 1, !.masks = pushed])
             ELSE AfterDetection([s EXCEPT !.masks = pushed], YoloDetection(pushed))

\* mutant: a failure of the preferred back-end ends the selector
PreferredFailedAborts(s) ==
  PipelineExit(s, PipelineCatch(s, "All inpainting models failed"))

\* mutant: the failed preferred back-end, first of the list, is passed over
PreferredFailedSkipsFirst(s) == Becomes([s EXCEPT !.pc = "models", !.modelIdx = 2])

\* smartInpainting: the catch around the preferred back-end
PreferredFailed(s) == Becomes([s EXCEPT !.pc = "models", !.modelIdx = 1])

\* smartInpainting: the preferred back-end settles
PreferredResponds ==
  /\ pc = "preferred"
  /\ \E resp \in InpaintResponses :
     \E s \in {Called(State, options.preferredInpaintingModel, resp)} :
     \E out \in {inpaintWith(options.preferredInpaintingModel, resp, 1)} :
       IF out.kind = "return" THEN AfterInpainting(s, out.value)
       ELSE PreferredFailed(s)

\* mutant: the selector falls off its end instead of throwing, and the
\* orchestrator faults on the missing result
AllModelsFailedSilently(s) ==
  PipelineExit(s, PipelineCatch(s,
    "Cannot read properties of undefined (reading 'modelUsed')"))

\* smartInpainting: the loop over `models` ran out
AllModelsFailed(s) ==
  PipelineExit(s, PipelineCatch(s, "All inpainting models failed"))

\* smartInpainting: back-end models[modelIdx] settles
ModelResponds ==
  /\ pc = "models"
  /\ \E resp \in InpaintResponses :
     \E s \in {Called(State, models[modelIdx], resp)} :
     \E out \in {inpaintWith(models[modelIdx], resp, 1)} :
       IF out.kind = "return" THEN AfterInpainting(s, out.value)
       ELSE IF modelIdx < Len(models)
         THEN Becomes([s EXCEPT !.modelIdx = modelIdx + 1])
       ELSE AllModelsFailed(s)

Next ==
  \/ Start
  \/ BackoffElapses
  \/ Sam2Responds
  \/ YoloResponds
  \/ SamResponds
  \/ PreferredResponds
  \/ ModelResponds

Spec == Init /\ [][Next]_vars

\* The retry loop on its own: more retries, one setting of the other options.
InitRetry ==
  /\ imageUrl \in ImageUrls
  /\ options \in [targetForegroundCount    : {1},
                  preferredInpaintingModel : {"flux"},
                  fallbackToYOLO           : {TRUE},
                  maxRetries               : (0 - 1)..MaxBackoffRetries]
  /\ InitLocals
  /\ input = None
  /\ output = None

SpecRetry == InitRetry /\ [][Next]_vars

\* ------------------------------------------- the exported functions, called
\* directly: separateForegroundBackground, calculateForegroundScore and
\* detectPeopleInImage on arguments the pipeline itself never builds (an
\* empty detection, repeated ids, other image sizes)
ImageSizes == {<<1024, 1024>>, <<800, 600>>}
Confidences == {0, 50, 100}

\* boxes that lie inside an image of the given size
BoxesInside(size) ==
  {b \in {<<x, y, w, h>> :
            x \in {0, size[1] \div 4, size[1] \div 2},
            y \in {0, size[2] \div 4, size[2] \div 2},
            w \in {0, 1, size[1] \div 4, size[1] \div 2, size[1]},
            h \in {0, 1, size[2] \div 4, size[2] \div 2, size[2]}} :
     b[1] + b[3] <= size[1] /\ b[2] + b[4] <= size[2]}

ScoreInputs ==
  UNION {{[fn          |-> "calculateForegroundScore",
           person      |-> PersonMask(0, "mask_0", b, c),
           imageWidth  |-> size[1],
           imageHeight |-> size[2]] : b \in BoxesInside(size), c \in Confidences}
         : size \in ImageSizes}

\* boxes of full height and every width from 0 to the image width in steps
\* of a hundredth, in an image of 1000 x 1000: area ratios 0, 0.01, ..., 1
SizeSweepInputs ==
  {[fn          |-> "calculateForegroundScore",
    person      |-> PersonMask(0, "mask_0", <<0, 0, 10 * k, 1000>>, 80),
    imageWidth  |-> 1000,
    imageHeight |-> 1000] : k \in 0..100}

\* people for a detection result: three ids, three boxes
People ==
  {PersonMask(idx, "mask_" \o ToString(idx), b, 90) :
     idx \in 0..2,
     b \in {<<256, 256, 512, 512>>, <<0, 0, 128, 128>>, <<256, 512, 512, 512>>}}

SeparateInputs ==
  {[fn                    |-> "separateForegroundBackground",
    detectionResult       |-> [masks       |-> m,
                               imageWidth  |-> DetectorImageSize,
                               imageHeight |-> DetectorImageSize],
    targetForegroundCount |-> t] : m \in SeqsUpTo(People, MaxMasks),
                                   t \in TargetCounts}

DetectInputs ==
  {[fn |-> "detectPeopleInImage", response |-> r] : r \in Sam2Responses}

InitDirect ==
  /\ imageUrl \in ImageUrls
  /\ options = [targetForegroundCount |-> 1, preferredInpaintingModel |-> "",
                fallbackToYOLO |-> TRUE, maxRetries |-> 3]
  /\ InitLocals
  /\ input \in ScoreInputs \cup SizeSweepInputs \cup SeparateInputs
                 \cup DetectInputs
  /\ output = None

Settles(outcome) ==
  /\ output' = outcome
  /\ UNCHANGED <<imageUrl, options, pc, attempt, elapsed, primaryError,
                 yoloOutput, i, masks, detectionResult, separationResult,
                 inpaintingMask, modelIdx, result, returned, calls, delays,
                 pipelineRuns, escaped, input>>

CallScore ==
  /\ output = None
  /\ input.fn = "calculateForegroundScore"
  /\ Settles(Return(calculateForegroundScore(input.person, input.imageWidth,
                                              input.imageHeight)))

CallSeparate ==
  /\ output = None
  /\ input.fn = "separateForegroundBackground"
  /\ Settles(Return(separateForegroundBackground(input.detectionResult,
                                                  input.targetForegroundCount)))

CallDetect ==
  /\ output = None
  /\ input.fn = "detectPeopleInImage"
  /\ Settles(detectPeopleInImage(input.response))

NextDirect ==
  \/ CallScore
  \/ CallSeparate
  \/ CallDetect

SpecDirect == InitDirect /\ [][NextDirect]_vars

\* ------------------------------------------------------------------ claims
InpaintingNames == {"stability", "runwayml", "flux"}
IsInpaintingCall(c) == c.fn \in InpaintingNames
InpaintingCalls == SelectSeq(calls, IsInpaintingCall)
AttemptEnded == result # None

\* C1: with maxRetries = N >= 1 and every attempt failing, the wrapper runs
\* the pipeline exactly N times, waits N-1 times, and returns the failure
\* result of the N-th attempt unchanged.
C1_ExactlyNAttempts ==
  (pc = "done" /\ options.maxRetries >= 1 /\ ~returned.success) =>
    /\ pipelineRuns = options.maxRetries
    /\ attempt = options.maxRetries
    /\ Len(delays) = options.maxRetries - 1
    /\ AttemptEnded
    /\ returned = result
    /\ returned.processingTime = elapsed

C1_Witness ==
  /\ pc = "done"
  /\ options.maxRetries = 3
  /\ pipelineRuns = 3
  /\ ~returned.success
  /\ returned.error = "All inpainting models failed"
  /\ returned.processingTime > 0

\* C2: the wait before attempt k (k >= 2) is min(1000 * 2^(k-2), 5000) ms,
\* that is 1000, 2000, 4000, 5000, 5000, ..., and never more than 5000.
C2_BackoffSchedule ==
  /\ \A k \in 2..(Len(delays) + 1) :
       /\ delays[k - 1] = (IF k = 2 THEN 1000
                           ELSE IF k = 3 THEN 2000
                           ELSE IF k = 4 THEN 4000
                           ELSE 5000)
       /\ delays[k - 1] <= 5000
  /\ pc \in {"sam2", "yolo", "sam", "preferred", "models"} =>
       Len(delays) = attempt - 1
  /\ pc = "backoff" => Len(delays) = attempt

C2_Witness ==
  /\ pc = "sam2"
  /\ attempt = 6
  /\ delays = <<1000, 2000, 4000, 5000, 5000>>

\* C3: never more than maxRetries pipeline attempts; the first attempt that
\* returns success:true is returned at once, and nothing (attempt, wait or
\* remote call) happens after it.
C3_StopsAtFirstSuccess ==
  /\ [](pipelineRuns <= Max(options.maxRetries, 0))
  /\ []((AttemptEnded /\ result.success) => (pc = "done" /\ returned = result))
  /\ [][(AttemptEnded /\ result.success) => UNCHANGED vars]_vars

C3_Witness ==
  /\ pc = "done"
  /\ returned.success
  /\ attempt = 2
  /\ options.maxRetries = 4
  /\ pipelineRuns = 2
  /\ Len(InpaintingCalls) > 0

\* C4: a pipeline attempt never throws to its caller: whichever remote call
\* fails, the attempt ends with a PersonRemovalResult value.
IsPersonRemovalResult(r) ==
  /\ r # None
  /\ {"success", "processingTime", "details"} \subseteq DOMAIN r
  /\ r.success \in BOOLEAN

C4_NoFaultEscapes ==
  /\ ~escaped
  /\ (pc \in {"backoff", "done"} /\ pipelineRuns >= 1) =>
       IsPersonRemovalResult(result)

C4_Witness ==
  /\ pc = "backoff"
  /\ AttemptEnded
  /\ ~result.success
  /\ result.error =
       "Both SAM-2 and YOLO detection failed: Failed to detect people: remote call failed"
  /\ Len(calls) = 3

\* C5: a result with success:false has a non-empty error and no resultUrl, a
\* result with success:true has a resultUrl and no error; on every path,
\* maxRetries <= 0 included.
WellFormedResult(r) ==
  IF r.success
    THEN "resultUrl" \in DOMAIN r /\ r.resultUrl # "" /\ "error" \notin DOMAIN r
    ELSE "error" \in DOMAIN r /\ r.error # "" /\ "resultUrl" \notin DOMAIN r

C5_ErrorIffFailure ==
  /\ result # None => WellFormedResult(result)
  /\ returned # None => WellFormedResult(returned)
  /\ pc = "done" => returned # None

C5_Witness ==
  /\ pc = "done"
  /\ options.maxRetries <= 0
  /\ pipelineRuns = 0
  /\ ~returned.success
  /\ returned.error = "Max retries exceeded"

\* C6: when detection returns at least one mask and the background set is
\* empty (always so when the people detected are no more than
\* targetForegroundCount), the attempt returns success:true with the input
\* imageUrl and inpaintingModel "none", and neither the mask generator nor
\* an inpainting back-end runs.
C6_ShortCircuit ==
  (detectionResult # None /\ Len(detectionResult.masks) >= 1) =>
    /\ separationResult # None
    /\ Len(detectionResult.masks) <= options.targetForegroundCount =>
         Len(separationResult.backgroundMasks) = 0
    /\ Len(separationResult.backgroundMasks) = 0 =>
         /\ AttemptEnded
         /\ result.success
         /\ result.resultUrl = imageUrl
         /\ result.details.inpaintingModel = "none"
         /\ inpaintingMask = None
         /\ Len(InpaintingCalls) = 0

C6_Witness ==
  /\ AttemptEnded
  /\ result.success
  /\ result.resultUrl = imageUrl
  /\ detectionResult # None
  /\ Len(detectionResult.masks) = 1
  /\ options.targetForegroundCount = 1
  /\ Len(separationResult.foregroundMasks) = 1

\* C7: the secondary adapter is called iff the primary failed and
\* fallbackToYOLO is true; without the fallback a primary failure ends the
\* attempt as a failed result; if both fail the attempt ends as a failed
\* detection result with no separation, mask generation or inpainting.
SecondaryCalled ==
  pc \in {"yolo", "sam"} \/ \E k \in 1..Len(calls) : calls[k].fn \in {"yolov8", "sam"}
PrimaryCallFailed ==
  Len(calls) >= 1 /\ calls[1].fn = "sam-2" /\ ~calls[1].ok
SecondaryCallFailed ==
  \E k \in 2..Len(calls) : calls[k].fn \in {"yolov8", "sam"} /\ ~calls[k].ok
PrimaryErrors ==
  {"Failed to detect people: remote call failed",
   "Failed to detect people: SAM-2 API did not return valid output"}
BothErrors ==
  {"Both SAM-2 and YOLO detection failed: Failed to detect people: remote call failed",
   "Both SAM-2 and YOLO detection failed: Failed to detect people: SAM-2 API did not return valid output"}

C7_FallbackOnlyOnPrimaryFailure ==
  /\ SecondaryCalled <=> (PrimaryCallFailed /\ options.fallbackToYOLO)
  /\ (PrimaryCallFailed /\ ~options.fallbackToYOLO) =>
       /\ AttemptEnded
       /\ ~result.success
       /\ result.error \in PrimaryErrors
       /\ Len(calls) = 1
  /\ (PrimaryCallFailed /\ SecondaryCallFailed) =>
       /\ AttemptEnded
       /\ ~result.success
       /\ result.error \in BothErrors
       /\ detectionResult = None
       /\ separationResult = None
       /\ inpaintingMask = None
       /\ Len(InpaintingCalls) = 0

C7_Witness ==
  /\ AttemptEnded
  /\ PrimaryCallFailed
  /\ Len(calls) = 3
  /\ calls[2].fn = "yolov8" /\ calls[2].ok
  /\ calls[3].fn = "sam" /\ ~calls[3].ok
  /\ result.error \in BothErrors

\* C8: detection that completes without fault but with zero masks makes the
\* attempt return success:false with the error "No people detected in the
\* image"; separation, mask generation and inpainting do not run.
C8_NoPeopleDetected ==
  (detectionResult # None /\ Len(detectionResult.masks) = 0) =>
    /\ AttemptEnded
    /\ ~escaped
    /\ ~result.success
    /\ result.error = "No people detected in the image"
    /\ separationResult = None
    /\ inpaintingMask = None
    /\ Len(InpaintingCalls) = 0

C8_Witness ==
  /\ AttemptEnded
  /\ detectionResult # None
  /\ Len(detectionResult.masks) = 0
  /\ Len(calls) = 1
  /\ calls[1].fn = "sam-2" /\ calls[1].ok
  /\ result.error = "No people detected in the image"

\* C9: with a non-empty background set, a non-empty mask and every
\* inpainting call failing, the attempt ends as a failed result with the
\* error "All inpainting models failed", and after maxRetries attempts the
\* wrapper returns success:false with a non-empty error.
AllInpaintingFailed ==
  /\ AttemptEnded
  /\ separationResult # None
  /\ Len(separationResult.backgroundMasks) >= 1
  /\ inpaintingMask # None
  /\ inpaintingMask.value # ""
  /\ \A k \in 1..Len(InpaintingCalls) : ~InpaintingCalls[k].ok

C9_InpaintingFailure ==
  AllInpaintingFailed =>
    /\ ~result.success
    /\ result.error = "All inpainting models failed"
    /\ Len(InpaintingCalls) >= 3
    /\ pc = "done" =>
         /\ pipelineRuns = options.maxRetries
         /\ ~returned.success
         /\ returned.error # ""

C9_Witness ==
  /\ pc = "done"
  /\ AllInpaintingFailed
  /\ options.maxRetries = 2
  /\ pipelineRuns = 2
  /\ ~returned.success
  /\ returned.error = "All inpainting models failed"

\* C10: smartInpainting calls the back-ends in the order [preferredModel if
\* given and known], stability, runwayml, flux; it returns the result of the
\* first call that succeeds, modelUsed is that back-end's, and no back-end
\* is called after a success.
ExpectedOrder ==
  (IF options.preferredInpaintingModel \in {"stability", "runwayml", "flux"}
     THEN <<options.preferredInpaintingModel>> ELSE <<>>)
    \o <<"stability", "runwayml", "flux">>

ExpectedModelUsed ==
  [stability |-> "stability-ai/stable-diffusion-inpainting",
   runwayml  |-> "runwayml/stable-diffusion-inpainting",
   flux      |-> "black-forest-labs/flux-kontext-dev"]

C10_OrderedFallback ==
  LET ic == InpaintingCalls
      n  == Len(ic)
  IN  /\ n <= Len(ExpectedOrder)
      /\ \A k \in 1..n : ic[k].fn = ExpectedOrder[k]
      /\ \A k \in 1..(n - 1) : ~ic[k].ok
      /\ (n > 0 /\ ic[n].ok) =>
           /\ AttemptEnded
           /\ result.success
           /\ result.resultUrl = ic[n].url
           /\ result.details.inpaintingModel = ExpectedModelUsed[ic[n].fn]
      /\ pc = "preferred" => (n = 0 /\ ExpectedOrder[1] = options.preferredInpaintingModel
                                    /\ Len(ExpectedOrder) = 4)
      /\ pc = "models" => (n < Len(ExpectedOrder) /\ models[modelIdx] = ExpectedOrder[n + 1])

C10_Witness ==
  /\ AttemptEnded
  /\ result.success
  /\ options.preferredInpaintingModel = "flux"
  /\ Len(InpaintingCalls) = 3
  /\ InpaintingCalls[1].fn = "flux" /\ ~InpaintingCalls[1].ok
  /\ InpaintingCalls[2].fn = "stability" /\ ~InpaintingCalls[2].ok
  /\ InpaintingCalls[3].fn = "runwayml" /\ InpaintingCalls[3].ok
  /\ result.details.inpaintingModel = "runwayml/stable-diffusion-inpainting"

\* C11: smartInpainting throws "All inpainting models failed" only after
\* stability, runwayml and flux have each been called from the list and each
\* failed; a failure of the preferred back-end or of an earlier back-end does
\* not end the chain, and an attempt in which some back-end call succeeded
\* ends with a result.
C11_FailsOnlyIfAllFailed ==
  LET ic == InpaintingCalls
      n  == Len(ic)
  IN  /\ (AttemptEnded /\ ~result.success
            /\ result.error = "All inpainting models failed") =>
           /\ n >= 3
           /\ ic[n - 2].fn = "stability"
           /\ ic[n - 1].fn = "runwayml"
           /\ ic[n].fn = "flux"
           /\ \A k \in 1..n : ~ic[k].ok
      /\ (n > 0 /\ ~AttemptEnded) =>
           /\ pc = "models"
           /\ \A k \in 1..n : ~ic[k].ok
      /\ (n > 0 /\ AttemptEnded /\ ~result.success) =>
           result.error = "All inpainting models failed"
      /\ (AttemptEnded /\ \E k \in 1..n : ic[k].ok) => result.success

C11_Witness ==
  /\ AttemptEnded
  /\ result.success
  /\ options.preferredInpaintingModel = "stability"
  /\ Len(InpaintingCalls) = 4
  /\ \A k \in 1..3 : ~InpaintingCalls[k].ok
  /\ InpaintingCalls[4].fn = "flux" /\ InpaintingCalls[4].ok
  /\ result.details.inpaintingModel = "black-forest-labs/flux-kontext-dev"

\* ---------------------------------------------- claims on the direct calls
Count(seq, m) == Cardinality({k \in 1..Len(seq) : seq[k] = m})
Separated == output # None /\ input.fn = "separateForegroundBackground"
Scored == output # None /\ input.fn = "calculateForegroundScore"
Detected == output # None /\ input.fn = "detectPeopleInImage"

\* C12: for every detection result (repeated ids included) and every
\* targetForegroundCount (negative included), every input mask is in exactly
\* one of foregroundMasks and backgroundMasks, and the two hold nothing else.
C12_PartitionComplete ==
  Separated =>
    LET given == input.detectionResult.masks
        fg    == output.value.foregroundMasks
        bg    == output.value.backgroundMasks
    IN  /\ output.kind = "return"
        /\ Len(fg) + Len(bg) = Len(given)
        /\ SeqRange(fg) \cup SeqRange(bg) = SeqRange(given)
        /\ SeqRange(fg) \cap SeqRange(bg) = {}
        /\ \A m \in SeqRange(given) :
             Count(fg, m) + Count(bg, m) = Count(given, m)

C12_Witness ==
  /\ Separated
  /\ Len(input.detectionResult.masks) = 3
  /\ input.targetForegroundCount = 1
  /\ Len(output.value.foregroundMasks) = 1
  /\ Len(output.value.backgroundMasks) = 2

\* C13: with unique mask ids and targetForegroundCount >= 0 the foreground
\* holds exactly min(targetForegroundCount, count) masks, and no background
\* mask scores higher than a foreground mask.
UniqueIds(given) ==
  \A j, k \in 1..Len(given) : given[j].id = given[k].id => j = k

ScoreOf(m) ==
  calculateForegroundScore(m, input.detectionResult.imageWidth,
                           input.detectionResult.imageHeight).score

C13_TopScoresAreForeground ==
  (Separated /\ UniqueIds(input.detectionResult.masks)
             /\ input.targetForegroundCount >= 0) =>
    LET n  == Len(input.detectionResult.masks)
        t  == input.targetForegroundCount
        fg == output.value.foregroundMasks
        bg == output.value.backgroundMasks
    IN  /\ Len(fg) = (IF t < n THEN t ELSE n)
        /\ \A f \in SeqRange(fg) : \A b \in SeqRange(bg) : ScoreOf(f) >= ScoreOf(b)

C13_Witness ==
  /\ Separated
  /\ UniqueIds(input.detectionResult.masks)
  /\ Len(input.detectionResult.masks) = 3
  /\ input.targetForegroundCount = 2
  /\ Len(output.value.foregroundMasks) = 2
  /\ output.value.backgroundMasks = <<input.detectionResult.masks[1]>>
  /\ ScoreOf(input.detectionResult.masks[1]) < ScoreOf(input.detectionResult.masks[2])
  /\ ScoreOf(input.detectionResult.masks[2]) < ScoreOf(input.detectionResult.masks[3])

\* C14: targetForegroundCount = 0 on a detection result with at least one
\* mask gives an empty foreground and the whole input, in its order, as
\* background.
C14_ZeroTarget ==
  (Separated /\ input.targetForegroundCount = 0
             /\ Len(input.detectionResult.masks) > 0) =>
    /\ output.value.foregroundMasks = <<>>
    /\ output.value.foregroundMask = ""
    /\ output.value.backgroundMasks = input.detectionResult.masks

C14_Witness ==
  /\ Separated
  /\ input.targetForegroundCount = 0
  /\ Len(input.detectionResult.masks) = 2
  /\ Len(output.value.backgroundMasks) = 2
  /\ output.value.backgroundMask = input.detectionResult.masks[1].mask

\* C15: on a detection result without masks separateForegroundBackground
\* returns (does not throw) empty partitions and empty merged masks,
\* whatever targetForegroundCount is.
C15_EmptyDetection ==
  (Separated /\ Len(input.detectionResult.masks) = 0) =>
    /\ output.kind = "return"
    /\ output.value = [foregroundMasks |-> <<>>, backgroundMasks |-> <<>>,
                       foregroundMask |-> "", backgroundMask |-> ""]

C15_Witness ==
  /\ Separated
  /\ Len(input.detectionResult.masks) = 0
  /\ input.targetForegroundCount = 0 - 1
  /\ output.kind = "return"
  /\ output.value.backgroundMasks = <<>>

\* C16: for a person whose bbox lies inside the image and whose confidence
\* is in [0,1], the score is in [0,100] and so is each of the five factors.
FactorNames == {"position", "size", "clarity", "centrality", "orientation"}

BBoxInsideImage ==
  /\ input.person.bbox[1] >= 0 /\ input.person.bbox[2] >= 0
  /\ input.person.bbox[3] >= 0 /\ input.person.bbox[4] >= 0
  /\ input.person.bbox[1] + input.person.bbox[3] <= input.imageWidth
  /\ input.person.bbox[2] + input.person.bbox[4] <= input.imageHeight

C16_ScoresInRange ==
  (Scored /\ BBoxInsideImage /\ input.person.confidence \in 0..100) =>
    /\ output.kind = "return"
    /\ output.value.score >= 0 /\ output.value.score <= 1000000
    /\ DOMAIN output.value.factors = FactorNames
    /\ \A f \in FactorNames :
         output.value.factors[f] >= 0 /\ output.value.factors[f] <= 10000

C16_Witness ==
  /\ Scored
  /\ input.imageWidth = 800 /\ input.imageHeight = 600
  /\ input.person.bbox = <<0, 0, 800, 600>>
  /\ input.person.confidence = 100
  /\ output.value.factors.size = 2000
  /\ output.value.factors.clarity = 10000
  /\ output.value.factors.position = 10000
  /\ output.value.score > 0

\* C17: the five weights (0.30, 0.25, 0.20, 0.15, 0.10) add up to 1, so the
\* score is a weighted mean of the factors: it lies between the lowest and
\* the highest of them.
C17_WeightsSumToOne ==
  /\ weights.position = 30 /\ weights.size = 25 /\ weights.centrality = 20
  /\ weights.orientation = 15 /\ weights.clarity = 10
  /\ weights.position + weights.size + weights.centrality
       + weights.orientation + weights.clarity = 100
  /\ Scored =>
       /\ \E f \in FactorNames : output.value.factors[f] * 100 <= output.value.score
       /\ \E f \in FactorNames : output.value.factors[f] * 100 >= output.value.score

C17_Witness ==
  /\ Scored
  /\ output.value.factors.position = 10000
  /\ output.value.factors.size = 10000
  /\ output.value.factors.centrality = 10000
  /\ output.value.factors.clarity = 10000
  /\ output.value.factors.orientation = 10000
  /\ output.value.score = 1000000

\* C19: detectPeopleInImage drops every raw detection whose reported
\* confidence is in [0, 0.5], 0 and 0.5 included: the detection at index k
\* contributes no PersonMask (id person_k) to the result.
ReportedLow(item) == item.confidence \in 0..50

C19_LowConfidenceDropped ==
  (Detected /\ input.response.kind = "ok") =>
    /\ output.kind = "return"
    /\ \A k \in 1..Len(input.response.output) :
         ReportedLow(input.response.output[k]) =>
           \A j \in 1..Len(output.value.masks) :
             output.value.masks[j].id # "person_" \o ToString(k - 1)

\* C20: in detectPeopleWithYOLO a refinement that returns no mask or that
\* faults only skips its box: the chain goes on to the next box and returns
\* a DetectionResult with one PersonMask per refinement that gave a mask.
SamCalls ==
  LET IsSam(c) == c.fn = "sam" IN SelectSeq(calls, IsSam)

C20_FailedRefinementSkipsBox ==
  /\ (\E k \in 1..Len(SamCalls) : ~SamCalls[k].ok) =>
       (pc = "sam" \/ detectionResult # None)
  /\ (Len(SamCalls) > 0 /\ detectionResult # None) =>
       /\ Len(SamCalls) = Len(yoloOutput)
       /\ Len(detectionResult.masks) =
            Cardinality({k \in 1..Len(SamCalls) : SamCalls[k].url # ""})

\* ------------------------------------------- claims on the pipeline, again
\* C21: generateInpaintingMask returns "" exactly when the background set is
\* empty: every non-empty background set that a detection variant produced
\* gives a non-empty mask reference.
C21_MaskEmptyIffNoBackground ==
  /\ (separationResult # None /\ Len(separationResult.backgroundMasks) > 0) =>
       (inpaintingMask # None /\ inpaintingMask.value # "")
  /\ inpaintingMask # None =>
       (inpaintingMask.value = "" <=> Len(separationResult.backgroundMasks) = 0)

\* C22: with a non-empty background set and an empty generated mask the
\* attempt ends as a failed result with the error "Failed to generate
\* inpainting mask", and no inpainting back-end is called in that attempt.
C22_EmptyMaskFailsAttempt ==
  (separationResult # None /\ Len(separationResult.backgroundMasks) > 0
     /\ inpaintingMask # None /\ inpaintingMask.value = "") =>
    /\ AttemptEnded
    /\ ~escaped
    /\ ~result.success
    /\ result.error = "Failed to generate inpainting mask"
    /\ Len(InpaintingCalls) = 0
    /\ pc \in {"backoff", "done"}

C22_Witness ==
  /\ AttemptEnded
  /\ Len(calls) = 1
  /\ calls[1].fn = "sam-2" /\ calls[1].ok
  /\ separationResult # None
  /\ Len(separationResult.foregroundMasks) = 1
  /\ Len(separationResult.backgroundMasks) = 1
  /\ separationResult.backgroundMasks[1].mask = ""
  /\ inpaintingMask.value = ""
  /\ result.error = "Failed to generate inpainting mask"

\* C23: when the primary detector failed, fallbackToYOLO is true and the
\* secondary chain returned one box with its mask, the result reports
\* peopleDetected = 1 and a details.modelUsed different from the one reported
\* when the primary detector succeeded.
PrimaryPathModelUsed == "SAM-2/YOLO"

PrimaryCallSucceeded ==
  Len(calls) >= 1 /\ calls[1].fn = "sam-2" /\ calls[1].ok

FallbackGaveOneBox ==
  /\ PrimaryCallFailed
  /\ options.fallbackToYOLO
  /\ Len(yoloOutput) = 1
  /\ detectionResult # None
  /\ Len(detectionResult.masks) = 1

C23_FallbackVisibleInModelUsed ==
  (AttemptEnded /\ result.success) =>
    /\ PrimaryCallSucceeded =>
         result.details.modelUsed = PrimaryPathModelUsed
    /\ FallbackGaveOneBox =>
         /\ result.details.peopleDetected = 1
         /\ result.details.modelUsed # PrimaryPathModelUsed

\* C24: within an attempt the stages run in the order Detecting,
\* Separating, MaskGenerating, Inpainting, each after its predecessor has
\* completed: an inpainting back-end is called only after detection returned
\* at least one mask, separation left a non-empty background and the mask
\* generator gave a non-empty mask.
Detecting == pc \in {"sam2", "yolo", "sam"}
Inpainting == pc \in {"preferred", "models"}

C24_StagesInOrder ==
  /\ Detecting =>
       /\ detectionResult = None
       /\ Len(InpaintingCalls) = 0
       /\ \A k \in 1..Len(calls) : calls[k].fn \in {"sam-2", "yolov8", "sam"}
  /\ detectionResult = None => separationResult = None
  /\ separationResult # None => Len(detectionResult.masks) >= 1
  /\ separationResult = None => inpaintingMask = None
  /\ inpaintingMask # None => Len(separationResult.backgroundMasks) >= 1
  /\ (Inpainting \/ Len(InpaintingCalls) > 0) =>
       /\ detectionResult # None
       /\ Len(detectionResult.masks) >= 1
       /\ separationResult # None
       /\ Len(separationResult.backgroundMasks) >= 1
       /\ inpaintingMask # None
       /\ inpaintingMask.value # ""
  /\ \A j, k \in 1..Len(calls) :
       (calls[j].fn \in InpaintingNames /\ calls[k].fn \notin InpaintingNames)
         => k < j

C24_Witness ==
  /\ pc = "models"
  /\ Len(calls) = 4
  /\ calls[1].fn = "sam-2" /\ ~calls[1].ok
  /\ calls[2].fn = "yolov8"
  /\ calls[3].fn = "sam"
  /\ calls[4].fn = "sam"
  /\ Len(detectionResult.masks) = 2
  /\ Len(separationResult.backgroundMasks) = 1
  /\ inpaintingMask.value = "sam_mask"

\* C25: every attempt is a clean run from Detecting: it starts at the primary
\* detector with no detection result, separation result, mask, call or
\* partial inpainting outcome left from the attempt before, and the first
\* remote call of every attempt is the primary detector.
CleanStart ==
  /\ detectionResult = None
  /\ separationResult = None
  /\ inpaintingMask = None
  /\ primaryError = ""
  /\ yoloOutput = <<>>
  /\ masks = <<>>
  /\ modelIdx = 0
  /\ calls = <<>>
  /\ elapsed = 0
  /\ result = None

C25_RetryIsCleanRun ==
  /\ [](pc = "sam2" => CleanStart)
  /\ [](Len(calls) >= 1 => calls[1].fn = "sam-2")
  /\ [][pipelineRuns' # pipelineRuns =>
          (pipelineRuns' = pipelineRuns + 1 /\ pc' = "sam2"
             /\ pc \in {"idle", "backoff"})]_vars

C25_Witness ==
  /\ pc = "sam2"
  /\ attempt = 3
  /\ pipelineRuns = 3
  /\ delays = <<1000, 2000>>
  /\ CleanStart

\* C27: in every DetectionResult returned by detectPeopleInImage or by
\* detectPeopleWithYOLO the PersonMask ids are pairwise distinct, whatever
\* was filtered out or skipped.
DistinctIds(ms) ==
  \A j, k \in 1..Len(ms) : ms[j].id = ms[k].id => j = k

C27_IdsDistinct ==
  /\ detectionResult # None => DistinctIds(detectionResult.masks)
  /\ DistinctIds(masks)

C27_Witness ==
  /\ detectionResult # None
  /\ PrimaryCallFailed
  /\ Len(yoloOutput) = 2
  /\ Len(detectionResult.masks) = 2
  /\ detectionResult.masks[1].id = "person_0"
  /\ detectionResult.masks[2].id = "person_1"
  /\ detectionResult.masks[1].bbox = detectionResult.masks[2].bbox

\* C28: every PersonMask of either detection variant has centerPoint =
\* (x + width/2, y + height/2) and area = width * height of its own bbox,
\* the default bbox included.  (centerPoint is kept doubled.)
CenterAndArea(m) ==
  /\ Len(m.bbox) = 4
  /\ m.centerPoint[1] = 2 * m.bbox[1] + m.bbox[3]
  /\ m.centerPoint[2] = 2 * m.bbox[2] + m.bbox[4]
  /\ m.area = m.bbox[3] * m.bbox[4]

C28_CenterAndArea ==
  /\ detectionResult # None =>
       \A k \in 1..Len(detectionResult.masks) :
         CenterAndArea(detectionResult.masks[k])
  /\ \A k \in 1..Len(masks) : CenterAndArea(masks[k])

C28_Witness ==
  /\ detectionResult # None
  /\ PrimaryCallSucceeded
  /\ Len(detectionResult.masks) = 2
  /\ detectionResult.masks[1].bbox = <<0, 0, 128, 128>>
  /\ detectionResult.masks[1].centerPoint = <<128, 128>>
  /\ detectionResult.masks[1].area = 16384
  /\ detectionResult.masks[2].bbox = <<0, 0, 100, 100>>
  /\ detectionResult.masks[2].centerPoint = <<100, 100>>
  /\ detectionResult.masks[2].area = 10000

\* C29: a wait happens only between two attempts: after a failed attempt
\* that is not the last permitted one there is exactly one wait and then the
\* next attempt; after the last permitted attempt the failure is returned
\* with no wait.
Running == pc \in {"sam2", "yolo", "sam", "preferred", "models"}

C29_WaitOnlyBetweenAttempts ==
  /\ [](pc = "backoff" =>
          /\ AttemptEnded
          /\ ~result.success
          /\ attempt < options.maxRetries
          /\ returned = None
          /\ Len(delays) = attempt)
  /\ [](pc = "done" => Len(delays) = attempt - 1)
  /\ [][delays' # delays =>
          /\ Running
          /\ pc' = "backoff"
          /\ Len(delays') = Len(delays) + 1]_vars
  /\ [][pc = "backoff" =>
          /\ pc' = "sam2"
          /\ attempt' = attempt + 1
          /\ pipelineRuns' = pipelineRuns + 1
          /\ delays' = delays]_vars
  /\ [][(pc # "done" /\ pc' = "done") => delays' = delays]_vars

C29_Witness ==
  /\ pc = "done"
  /\ ~returned.success
  /\ options.maxRetries = 3
  /\ attempt = 3
  /\ delays = <<1000, 2000>>
  /\ returned.error = "No people detected in the image"

\* C30: a preferred back-end that failed stays in the fallback list: with a
\* preferredModel naming one of the three back-ends and every call failing,
\* smartInpainting makes exactly 4 calls, 2 of them to the preferred one;
\* with no preferredModel or an unknown one it makes at most 3 calls, each
\* listed back-end at most once.
CallsTo(name) ==
  Cardinality({k \in 1..Len(InpaintingCalls) : InpaintingCalls[k].fn = name})

PreferredIsListed ==
  options.preferredInpaintingModel \in {"stability", "runwayml", "flux"}

EveryBackendCallFailed ==
  /\ AttemptEnded
  /\ Len(InpaintingCalls) > 0
  /\ \A k \in 1..Len(InpaintingCalls) : ~InpaintingCalls[k].ok

C30_PreferredIsRetried ==
  /\ (PreferredIsListed /\ EveryBackendCallFailed) =>
       /\ Len(InpaintingCalls) = 4
       /\ CallsTo(options.preferredInpaintingModel) = 2
       /\ \A name \in InpaintingNames \ {options.preferredInpaintingModel} :
            CallsTo(name) = 1
  /\ ~PreferredIsListed =>
       /\ Len(InpaintingCalls) <= 3
       /\ \A name \in InpaintingNames : CallsTo(name) <= 1
       /\ EveryBackendCallFailed => Len(InpaintingCalls) = 3

C30_Witness ==
  /\ EveryBackendCallFailed
  /\ options.preferredInpaintingModel = "stability"
  /\ Len(InpaintingCalls) = 4
  /\ InpaintingCalls[1].fn = "stability"
  /\ InpaintingCalls[2].fn = "stability"
  /\ result.error = "All inpainting models failed"

\* C31: at most one remote call is outstanding at any time: a call is issued
\* only by the step that completes the previous one (or that starts an
\* attempt), and the refinement calls of the secondary chain are made one
\* at a time in box order.
IdOfBox(k) == "person_" \o ToString(k - 1)

C31_OneCallAtATime ==
  /\ [](pc = "sam" =>
          /\ i < Len(yoloOutput)
          /\ Len(SamCalls) = i
          /\ Len(calls) = i + 2
          /\ \A j \in 1..Len(masks) : \E k \in 1..i : masks[j].id = IdOfBox(k)
          /\ \A j, k \in 1..Len(masks) :
               j < k => \E a, b \in 1..i :
                          a < b /\ masks[j].id = IdOfBox(a) /\ masks[k].id = IdOfBox(b))
  /\ [](Len(calls) = elapsed)
  /\ [][Running =>
          /\ Len(calls') = Len(calls) + 1
          /\ SubSeq(calls', 1, Len(calls)) = calls]_vars
  /\ [][~Running => (calls' = calls \/ calls' = <<>>)]_vars
  /\ [][(pc = "sam" /\ pc' = "sam") => i' = i + 1]_vars

C31_Witness ==
  /\ pc = "sam"
  /\ Len(yoloOutput) = 2
  /\ i = 1
  /\ Len(SamCalls) = 1
  /\ SamCalls[1].ok
  /\ Len(masks) = 1
  /\ masks[1].id = "person_0"

\* C32: with r = width * height / (imageWidth * imageHeight) the size factor
\* is (r / 0.05) * 60 for r < 0.05, 100 for 0.05 <= r <= 0.40 and
\* max(20, 100 * (1 - (r - 0.40) / 0.40)) for r > 0.40: never below 20 there,
\* and 20 for every r >= 0.72.  (Factors are kept in hundredths of a point,
\* rounded down; r is compared as personArea * 100 against imageArea * 100r.)
PersonArea == input.person.bbox[3] * input.person.bbox[4]
ImageArea == input.imageWidth * input.imageHeight
SizeFactor == output.value.factors.size

C33_EmptyPrimaryNoFallback ==
  PrimaryCallSucceeded =>
    /\ pc \notin {"yolo", "sam"}
    /\ \A k \in 1..Len(calls) : calls[k].fn \notin {"yolov8", "sam"}
    /\ primaryError = ""
    /\ detectionResult # None
    /\ Len(detectionResult.masks) = 0 =>
         /\ Len(calls) = 1
         /\ AttemptEnded
         /\ ~result.success
         /\ result.error = "No people detected in the image"
         /\ pc \in {"backoff", "done"}

C33_Witness ==
  /\ PrimaryCallSucceeded
  /\ options.fallbackToYOLO
  /\ options.maxRetries = 2
  /\ attempt = 2
  /\ pc = "done"
  /\ Len(detectionResult.masks) = 0
  /\ Len(calls) = 1
  /\ returned.error = "No people detected in the image"

\* C34: under a score tie the detection that comes earlier in the mask order
\* gets the foreground slot: if two masks (unique ids, target >= 0) score the
\* same and the later one is foreground, so is the earlier one.
InForeground(m) ==
  \E k \in 1..Len(output.value.foregroundMasks) :
    output.value.foregroundMasks[k] = m

C34_TieKeepsDetectionOrder ==
  (Separated /\ UniqueIds(input.detectionResult.masks)
             /\ input.targetForegroundCount >= 0) =>
    \A j, k \in 1..Len(input.detectionResult.masks) :
      (j < k /\ ScoreOf(input.detectionResult.masks[j])
                  = ScoreOf(input.detectionResult.masks[k])
             /\ InForeground(input.detectionResult.masks[k]))
        => InForeground(input.detectionResult.masks[j])

C34_Witness ==
  /\ Separated
  /\ UniqueIds(input.detectionResult.masks)
  /\ Len(input.detectionResult.masks) = 3
  /\ input.targetForegroundCount = 2
  /\ ScoreOf(input.detectionResult.masks[1]) > ScoreOf(input.detectionResult.masks[2])
  /\ ScoreOf(input.detectionResult.masks[2]) = ScoreOf(input.detectionResult.masks[3])
  /\ output.value.foregroundMasks =
       <<input.detectionResult.masks[1], input.detectionResult.masks[2]>>
  /\ output.value.backgroundMasks = <<input.detectionResult.masks[3]>>

\* C35: every PersonRemovalResult of the pipeline or of the wrapper has
\* peopleDetected = foregroundPeople + backgroundPeople; a success that went
\* through inpainting has backgroundPeople >= 1, and its inpaintingModel is
\* the modelUsed of the back-end whose output is its resultUrl.
CountsAddUp(r) ==
  /\ r.details.peopleDetected =
       r.details.foregroundPeople + r.details.backgroundPeople
  /\ r.details.foregroundPeople >= 0
  /\ r.details.backgroundPeople >= 0

C35_CountsConsistent ==
  /\ result # None => CountsAddUp(result)
  /\ returned # None => CountsAddUp(returned)
  /\ (AttemptEnded /\ result.success /\ Len(InpaintingCalls) > 0) =>
       LET last == InpaintingCalls[Len(InpaintingCalls)]
       IN  /\ result.details.backgroundPeople >= 1
           /\ result.details.backgroundPeople = Len(separationResult.backgroundMasks)
           /\ result.details.peopleDetected = Len(detectionResult.masks)
           /\ last.ok
           /\ result.resultUrl = last.url
           /\ result.details.inpaintingModel = ExpectedModelUsed[last.fn]
  /\ (AttemptEnded /\ result.success /\ Len(InpaintingCalls) = 0) =>
       /\ result.details.backgroundPeople = 0
       /\ result.details.inpaintingModel = "none"

C35_Witness ==
  /\ pc = "done"
  /\ returned.success
  /\ returned.details.peopleDetected = 2
  /\ returned.details.foregroundPeople = 1
  /\ returned.details.backgroundPeople = 1
  /\ returned.details.inpaintingModel = "runwayml/stable-diffusion-inpainting"
  /\ Len(InpaintingCalls) = 2
  /\ returned.resultUrl = InpaintingCalls[2].url

\* C36: the return after the retry loop (error "Max retries exceeded") is
\* never reached, whatever maxRetries is: every invocation returns from
\* inside the loop, that is with the result of a pipeline attempt.
C36_ClosingReturnUnreachable ==
  pc = "done" =>
    /\ pipelineRuns >= 1
    /\ returned = result
    /\ (~returned.success => returned.error # "Max retries exceeded")

\* C37: a negative targetForegroundCount keeps nobody: the foreground is
\* empty and the background is the whole input; for every integer target
\* the foreground holds at most max(0, targetForegroundCount) masks.
C37_NegativeTargetKeepsNobody ==
  (Separated /\ UniqueIds(input.detectionResult.masks)) =>
    /\ input.targetForegroundCount < 0 =>
         /\ output.value.foregroundMasks = <<>>
         /\ output.value.backgroundMasks = input.detectionResult.masks
    /\ Len(output.value.foregroundMasks)
         <= (IF input.targetForegroundCount > 0
               THEN input.targetForegroundCount ELSE 0)

====
